---- MODULE Spec2Model ----
(***************************************************************************)
(* The event scheduler of dbat (src/dbat/core.py), the event handler base  *)
(* class (src/dbat/events/base.py) and the connections of the server       *)
(* (src/dbat/net.py), as a state machine.                                  *)
(*                                                                         *)
(* The store is the table dbat.events, one column per variable.  The       *)
(* scheduler is the coroutine Application.run; every handler is one        *)
(* asyncio task running EventHandler._execute_event.  A step of a task     *)
(* runs from one suspension point (an await on the store) to the next, as  *)
(* asyncio runs it; a requested cancellation is thrown into the task when  *)
(* it is resumed.                                                          *)
(***************************************************************************)
EXTENDS Integers, FiniteSets, Sequences, TLC

\* Number of event ids the producers may use (ids are uuids, never reused).
NumEvents == 2

Ids == 1..NumEvents

\* No row with this id in dbat.events.
NoRow == "norow"

\* The six values of the column current_state.
States == {"pending", "active", "finished", "cancelled", "error", "aborted"}

\* The states the spec calls terminal.
TerminalStates == {"finished", "cancelled", "error"}

\* The registry filled by register_event_handlers from connection.__all__.
EVENT_HANDLERS == {"ClientSubmittedCommand", "ClientConnected", "ClientDisconnected"}

\* Event names a producer may write: one registered, one not.
EventNames == {"ClientConnected", "NoSuchEvent"}

\* Parameter payloads a producer may write: one JSON document, one not.
Payloads == {"{}", "{"}

\* orjson.loads on a payload: a dict, or JSONDecodeError raised.
orjson_loads(p) == IF p = "{}" THEN "dict" ELSE "JSONDecodeError"

VARIABLES
    current_state,    \* column current_state of each row, or NoRow
    persistent,       \* column persistent
    event_name,       \* column event_name
    parameters,       \* column parameters
    created,          \* ids a producer has already used
    EVENTS,           \* ids with a Handler instance in the in-memory table
    new_events,       \* execute_events: instances constructed, not yet started
    bad_event_uuids,  \* execute_events: rows whose name did not resolve
    schedPc,          \* where Application.run is
    hpc,              \* where each handler task is
    hexc,             \* the exception a handler is unwinding with / the state it is writing
    cancelReq,        \* task.cancel() requested and not yet thrown into the task
    taskCount,        \* history: tasks created for the event (start calls)
    runCount,         \* history: calls of run for the event
    hUpdates,         \* history: UPDATE statements the handler executed
    outcome,          \* history: "return" or "raise" as run ended, "cancel" once
                      \* a CancelledError was thrown into the task, else "none"
    hend,             \* history: how the task ended: "none", "returned", "escaped"
    purged,           \* history: ids whose rows the startup delete removed
    CONNECTIONS,      \* ids in the live registry
    DEAD_CONNECTIONS, \* ids in the dead registry
    PENDING_COMMANDS, \* ids marked as having pending input
    ppc,              \* where each Connection's task (Connection.run) is
    rpc,              \* where each reader child is
    wpc,              \* where each writer child is
    pcancel,          \* self.task.cancel() requested and not yet thrown
    rcancel,          \* the task group's cancel() of the reader, not yet thrown
    wcancel,          \* the task group's cancel() of the writer, not yet thrown
    closed_by_client, \* the flag of each Connection
    closed_by_server, \* the flag of each Connection
    sockClosed,       \* writer.close() has been called
    out_queue,        \* the outbound queue of each Connection
    message,          \* the message the writer has taken and is handling
    written,          \* the data handed to writer.write, in order
    flushed,          \* how many of them a drain() has returned after
    in_buffer,        \* run_reader's buffer
    pending_commands, \* the decoded lines of each Connection
    enqueued,         \* history: every message put on the queue, in order
    received,         \* history: every byte the reads returned, in order
    nreads,           \* history: reads that returned data
    rend,             \* history: how the reader ended
    wend,             \* history: how the writer ended
    tasks_done,       \* history: out_queue.task_done() calls
    teardowns         \* history: times the finally block of run was entered

storeVars == <<current_state, persistent, event_name, parameters, created>>
schedVars == <<EVENTS, new_events, bad_event_uuids, schedPc>>
taskVars  == <<hpc, hexc, cancelReq>>
histVars  == <<taskCount, runCount, hUpdates, outcome, hend, purged>>
eventVars == <<storeVars, schedVars, taskVars, histVars>>

registryVars == <<CONNECTIONS, DEAD_CONNECTIONS, PENDING_COMMANDS>>
lifeVars   == <<ppc, rpc, wpc, pcancel, rcancel, wcancel,
                closed_by_client, closed_by_server, sockClosed, rend, wend, teardowns>>
writerVars == <<out_queue, message, written, flushed, enqueued, tasks_done>>
readerVars == <<in_buffer, pending_commands, received, nreads>>
netVars == <<registryVars, lifeVars, writerVars, readerVars>>

vars == <<eventVars, netVars>>

\* A handler task that has been created and has not ended.
Live(e) == hpc[e] \notin {"none", "done"}

\* The scheduler coroutine has ended: by a deliberate cancellation ("stopped")
\* or by an exception leaving run ("dead").
SchedEnded == schedPc \in {"stopped", "dead"}

----------------------------------------------------------------------------
(* The store's statements, as the code issues them.                        *)

\* DELETE FROM dbat.events WHERE id = ANY(ids)
DeleteRows(cs, ids) == [e \in Ids |-> IF e \in ids THEN NoRow ELSE cs[e]]

\* UPDATE dbat.events SET current_state = s WHERE id = ANY(ids)
UpdateRows(cs, ids, s) ==
    [e \in Ids |-> IF e \in ids /\ cs[e] # NoRow THEN s ELSE cs[e]]

\* Faulty variant of SelectPending: the dispatch query also takes the active rows.
SelectPendingOrActive(cs) == {e \in Ids : cs[e] \in {"pending", "active"}}

\* SELECT ... WHERE current_state = 'pending'
SelectPending(cs) == {e \in Ids : cs[e] = "pending"}

\* SELECT id ... WHERE current_state = 'aborted'
SelectAborted(cs) == {e \in Ids : cs[e] = "aborted"}

\* Faulty variant of SelectCleanup: the cleanup query leaves 'error' out.
SelectCleanupNoError(cs) == {e \in Ids : cs[e] \in {"finished", "cancelled"}}

\* Faulty variant of SelectCleanup: the cleanup query takes the active rows too.
SelectCleanupAndActive(cs) ==
    {e \in Ids : cs[e] \in {"finished", "cancelled", "error", "active"}}

\* SELECT ... WHERE current_state IN ('finished', 'cancelled', 'error')
SelectCleanup(cs) == {e \in Ids : cs[e] \in {"finished", "cancelled", "error"}}

\* Faulty variant of SelectNonPersistent: the startup delete has no WHERE clause.
SelectEveryRow(cs, pers) == {e \in Ids : cs[e] # NoRow}

\* DELETE FROM dbat.events WHERE persistent = FALSE
SelectNonPersistent(cs, pers) == {e \in Ids : cs[e] # NoRow /\ ~pers[e]}

\* The other columns once current_state has become cs: a row that does not
\* exist has no columns (each function keeps one fixed value for it).
ColumnsOf(cs) ==
    /\ persistent' = [e \in Ids |-> IF cs[e] = NoRow THEN FALSE ELSE persistent[e]]
    /\ event_name' = [e \in Ids |-> IF cs[e] = NoRow THEN "ClientConnected" ELSE event_name[e]]
    /\ parameters' = [e \in Ids |-> IF cs[e] = NoRow THEN "{}" ELSE parameters[e]]
    /\ UNCHANGED created

\* Faulty variant of Resolves: every name gets a handler class.
ResolvesAnyName(n) == TRUE

\* EVENT_HANDLERS.get(record['event_name'], None)
Resolves(n) == n \in EVENT_HANDLERS

----------------------------------------------------------------------------
(* The connections of net.py: what they are made of.                       *)

\* Number of connection ids the server hands out (uuid4, never reused).
NumConns == 2

Conns == 1..NumConns

\* The bytes a client sends: an ASCII letter, CR, LF, and a byte that is not
\* valid UTF-8 anywhere.
Bytes == {"a", "CR", "LF", "FF"}

\* Most bytes the reads return in all, over all connections.
MaxBytes == 4

\* Most messages put on the queues in all, over all connections.
MaxMsgs == 2

\* The total length of the sequences f[1], ..., f[n].
RECURSIVE SumLen(_, _)
SumLen(f, n) == IF n = 0 THEN 0 ELSE Len(f[n]) + SumLen(f, n - 1)

\* OutMessage: data and flags (0: none; anything else asks for the close).
OutMessage == [data : {"A", "B"}, flags : {0, 1}]

\* The data of the i-th message put on a queue: the producers send "A", then
\* "B", in turn, so that the data tells the messages of a queue apart.
DataOf(i) == IF i % 2 = 1 THEN "A" ELSE "B"

\* The writer has no message in hand.
NoMessage == [data |-> "none", flags |-> 0]

\* DEAD_CONNECTIONS = set() and NEW_CONNECTIONS = set(), as the module
\* creates them.
DeadRegistryKind == "set"

NewRegistryKind == "set"

\* NEW_CONNECTIONS: nothing ever adds an id to it.
NEW_CONNECTIONS == {}

\* registry[key] = value and del registry[key] need a mapping.
SupportsItemAssignment(kind) == kind = "dict"

SupportsItemDeletion(kind) == kind = "dict"

\* No connection has been accepted.
NetIdle ==
    /\ CONNECTIONS = {}
    /\ DEAD_CONNECTIONS = {}
    /\ PENDING_COMMANDS = {}
    /\ ppc = [c \in Conns |-> "none"]
    /\ rpc = [c \in Conns |-> "none"]
    /\ wpc = [c \in Conns |-> "none"]
    /\ pcancel = [c \in Conns |-> FALSE]
    /\ rcancel = [c \in Conns |-> FALSE]
    /\ wcancel = [c \in Conns |-> FALSE]
    /\ closed_by_client = [c \in Conns |-> FALSE]
    /\ closed_by_server = [c \in Conns |-> FALSE]
    /\ sockClosed = [c \in Conns |-> FALSE]
    /\ out_queue = [c \in Conns |-> <<>>]
    /\ message = [c \in Conns |-> NoMessage]
    /\ written = [c \in Conns |-> <<>>]
    /\ flushed = [c \in Conns |-> 0]
    /\ in_buffer = [c \in Conns |-> <<>>]
    /\ pending_commands = [c \in Conns |-> <<>>]
    /\ enqueued = [c \in Conns |-> <<>>]
    /\ received = [c \in Conns |-> <<>>]
    /\ nreads = [c \in Conns |-> 0]
    /\ rend = [c \in Conns |-> "none"]
    /\ wend = [c \in Conns |-> "none"]
    /\ tasks_done = [c \in Conns |-> 0]
    /\ teardowns = [c \in Conns |-> 0]

----------------------------------------------------------------------------
Init ==
    /\ NetIdle
    /\ current_state \in [Ids -> States \cup {NoRow}]
    /\ persistent \in [Ids -> BOOLEAN]
    /\ event_name \in [Ids -> EventNames]
    /\ parameters \in [Ids -> Payloads]
    \* only a pending row's name and payload are ever read; a row left by an
    \* earlier run in another state was dispatched by it, so both were good
    /\ \A e \in Ids :
          /\ current_state[e] # "pending" =>
                event_name[e] = "ClientConnected" /\ parameters[e] = "{}"
          /\ current_state[e] = NoRow => ~persistent[e]
    /\ created = {e \in Ids : current_state[e] # NoRow}
    /\ EVENTS = {}
    /\ new_events = {}
    /\ bad_event_uuids = {}
    /\ schedPc = "startup"
    /\ hpc = [e \in Ids |-> "none"]
    /\ hexc = [e \in Ids |-> "none"]
    /\ cancelReq = [e \in Ids |-> FALSE]
    /\ taskCount = [e \in Ids |-> 0]
    /\ runCount = [e \in Ids |-> 0]
    /\ hUpdates = [e \in Ids |-> 0]
    /\ outcome = [e \in Ids |-> "none"]
    /\ hend = [e \in Ids |-> "none"]
    /\ purged = {}

----------------------------------------------------------------------------
(* Third parties writing to the store.                                     *)

\* A producer inserts a pending row under a fresh id.  The column persistent
\* is read by the startup delete alone: a row inserted after it is given the
\* one value TRUE.
CreateEvent(e, n, p, pers) ==
    /\ UNCHANGED netVars
    /\ ~SchedEnded
    /\ schedPc # "startup" => pers
    /\ e \notin created
    /\ created' = created \cup {e}
    /\ current_state' = [current_state EXCEPT ![e] = "pending"]
    /\ event_name' = [event_name EXCEPT ![e] = n]
    /\ parameters' = [parameters EXCEPT ![e] = p]
    /\ persistent' = [persistent EXCEPT ![e] = pers]
    /\ UNCHANGED <<schedVars, taskVars, histVars>>

\* A third party marks an active row 'aborted'.
ExternalAbort(e) ==
    /\ UNCHANGED netVars
    /\ ~SchedEnded
    /\ current_state[e] = "active"
    /\ current_state' = [current_state EXCEPT ![e] = "aborted"]
    /\ UNCHANGED <<persistent, event_name, parameters, created>>
    /\ UNCHANGED <<schedVars, taskVars, histVars>>

----------------------------------------------------------------------------
(* Application.run: the startup delete, then the three sweeps of a cycle.  *)

\* cleanup_nonpersistent_events, awaited once before the loop.
CleanupNonpersistent ==
    /\ UNCHANGED netVars
    /\ schedPc = "startup"
    /\ LET gone == SelectNonPersistent(current_state, persistent) IN
          /\ current_state' = DeleteRows(current_state, gone)
          /\ purged' = gone
    /\ schedPc' = "aborts"
    /\ ColumnsOf(current_state')
    /\ UNCHANGED <<EVENTS, new_events, bad_event_uuids>>
    /\ UNCHANGED taskVars
    /\ UNCHANGED <<taskCount, runCount, hUpdates, outcome, hend>>

\* The instances execute_aborts calls ev.task.cancel() on.
AbortTargets(cs, evs) == SelectAborted(cs) \cap evs

\* execute_aborts: cancel the task of every aborted row that has an instance.
\* cancel() on a task that has ended does nothing.
ExecuteAborts ==
    /\ UNCHANGED netVars
    /\ schedPc = "aborts"
    /\ cancelReq' = [e \in Ids |->
          cancelReq[e] \/ (e \in AbortTargets(current_state, EVENTS) /\ Live(e))]
    /\ schedPc' = "cleanup"
    /\ UNCHANGED <<storeVars, EVENTS, new_events, bad_event_uuids, hpc, hexc, histVars>>

\* Faulty variant of PopInstances: the instances stay in the table.
PopInstancesKept(evs, ids) == evs

\* EVENTS.pop(record['id'], None) for every selected row.
PopInstances(evs, ids) == evs \ ids

\* cleanup_events: drop the instance and delete the row of every terminal row.
CleanupEvents ==
    /\ UNCHANGED netVars
    /\ schedPc = "cleanup"
    /\ LET term == SelectCleanup(current_state) IN
          /\ EVENTS' = PopInstances(EVENTS, term)
          /\ current_state' = DeleteRows(current_state, term)
    /\ schedPc' = "dispatch"
    /\ ColumnsOf(current_state')
    /\ UNCHANGED <<new_events, bad_event_uuids, taskVars, histVars>>

\* The pending rows of a dispatch sweep whose name resolves.
Resolved(cs, names) == {e \in SelectPending(cs) : Resolves(names[e])}

\* Faulty variant of ActivateRows: the UPDATE to 'active' is not issued before the
\* tasks are started.
ActivateRowsSkipped(cs, ids) == cs

\* The rows the sweep's UPDATE ... SET current_state = 'active' names.
ActivateRows(cs, ids) == UpdateRows(cs, ids, "active")

\* execute_events, the transaction: every pending row is resolved; the
\* unresolved are deleted, the resolved get an instance and become active
\* (the two statements are repeated in the loop with the lists so far; the
\* transaction commits their last execution).  Commits only if no payload
\* fails to parse.
ExecuteEventsTxn ==
    /\ UNCHANGED netVars
    /\ schedPc = "dispatch"
    /\ LET good == Resolved(current_state, event_name)
           bad  == SelectPending(current_state) \ good
       IN /\ \A e \in good : orjson_loads(parameters[e]) = "dict"
          /\ current_state' = ActivateRows(DeleteRows(current_state, bad), good)
          /\ new_events' = good
          /\ bad_event_uuids' = bad
    /\ schedPc' = "start_new"
    /\ ColumnsOf(current_state')
    /\ UNCHANGED <<EVENTS, taskVars, histVars>>

\* execute_events, after the transaction: register and start each instance.
ExecuteEventsStart ==
    /\ UNCHANGED netVars
    /\ schedPc = "start_new"
    /\ EVENTS' = EVENTS \cup new_events
    /\ hpc' = [e \in Ids |-> IF e \in new_events THEN "start" ELSE hpc[e]]
    /\ hexc' = [e \in Ids |-> IF e \in new_events THEN "none" ELSE hexc[e]]
    /\ cancelReq' = [e \in Ids |-> IF e \in new_events THEN FALSE ELSE cancelReq[e]]
    /\ taskCount' = [e \in Ids |-> IF e \in new_events THEN taskCount[e] + 1 ELSE taskCount[e]]
    /\ new_events' = {}
    /\ bad_event_uuids' = {}
    /\ schedPc' = "sleep"
    /\ UNCHANGED storeVars
    /\ UNCHANGED <<runCount, hUpdates, outcome, hend, purged>>

\* asyncio.sleep(0.08) returns.  The tasks created by the cycle have taken
\* their first step by then: asyncio runs a new task in the next loop pass.
Sleep ==
    /\ UNCHANGED netVars
    /\ schedPc = "sleep"
    /\ \A e \in Ids : hpc[e] # "start"
    /\ schedPc' = "aborts"
    /\ UNCHANGED <<storeVars, EVENTS, new_events, bad_event_uuids, taskVars, histVars>>

\* The coroutine run ends and Application.start returns; asyncio.run then
\* cancels every task still running and runs it to its end: a handler inside
\* _mark_state ends by the CancelledError, any other goes through
\* `except CancelledError` and writes 'cancelled'.  The process is gone after
\* that: its tasks and tables with it, and the history of the run is closed.
ExitWrites(cs) ==
    UpdateRows(cs, {e \in Ids : hpc[e] \in {"acquire", "run"}}, "cancelled")

EndScheduler(how) ==
    /\ UNCHANGED netVars
    /\ schedPc' = how
    /\ current_state' = ExitWrites(current_state)
    /\ UNCHANGED <<persistent, event_name, parameters, created>>
    /\ EVENTS' = {}
    /\ new_events' = {}
    /\ bad_event_uuids' = {}
    /\ hpc' = [e \in Ids |-> "none"]
    /\ hexc' = [e \in Ids |-> "none"]
    /\ cancelReq' = [e \in Ids |-> FALSE]
    /\ taskCount' = [e \in Ids |-> 0]
    /\ runCount' = [e \in Ids |-> 0]
    /\ hUpdates' = [e \in Ids |-> 0]
    /\ outcome' = [e \in Ids |-> "none"]
    /\ hend' = [e \in Ids |-> "none"]
    /\ UNCHANGED purged

\* A store error in a sweep: the transaction rolls back and the exception
\* leaves run, which catches CancelledError only.
StoreError ==
    /\ schedPc \in {"startup", "aborts", "cleanup", "dispatch"}
    /\ EndScheduler("dead")

\* execute_events: orjson.loads raises on the payload of a resolved row.
ExecuteEventsRaises ==
    /\ schedPc = "dispatch"
    /\ \E e \in Resolved(current_state, event_name) :
          orjson_loads(parameters[e]) # "dict"
    /\ EndScheduler("dead")

\* Deliberate cancellation of run (shutdown).
Shutdown ==
    /\ ~SchedEnded
    /\ \A e \in Ids : hpc[e] # "start"
    /\ EndScheduler("stopped")

----------------------------------------------------------------------------
(* EventHandler._execute_event, one task per dispatched event.             *)

\* Positional arguments of the call self._mark_state(conn, "finished").
FinishedCallArgs == 2

\* Parameters _mark_state declares after self.
MarkStateParams == 1

\* What validate_task may do: return, raise EventError, raise anything else.
ValidateResults == {"ok", "EventError", "Exception"}

\* What run may do when it is not cancelled.
RunResults == {"return", "raise"}

\* The inner try: the exception that leaves the transaction block, "none" if
\* none does.  After run returns, _mark_state is called with the arguments
\* given; a call it cannot take raises TypeError, which the inner
\* `except Exception` wraps in EventError as it does an error raised by run.
InnerTry(r) ==
    CASE r = "cancel" -> "CancelledError"
      [] r = "raise"  -> "EventError"
      [] r = "return" -> IF FinishedCallArgs = MarkStateParams
                            THEN "none" ELSE "EventError"

\* Faulty variant of OuterExcept: the error clause writes a state that is not
\* one of the six.
OuterExceptFailed(x) ==
    CASE x = "CancelledError" -> "cancelled"
      [] x = "EventError"     -> "failed"
      [] OTHER                -> "unhandled"

\* Faulty variant of OuterExcept: the two except clauses write each other's state.
OuterExceptSwapped(x) ==
    CASE x = "CancelledError" -> "error"
      [] x = "EventError"     -> "cancelled"
      [] OTHER                -> "unhandled"

\* The outer except clauses: the state the handler goes on to write, or
\* "unhandled" where the clause calls _mark_failed, which no class defines,
\* so that AttributeError leaves the task.
OuterExcept(x) ==
    CASE x = "CancelledError" -> "cancelled"
      [] x = "EventError"     -> "error"
      [] OTHER                -> "unhandled"

\* The task ends with nothing (more) written.
TaskEnds(e, how) ==
    /\ hpc' = [hpc EXCEPT ![e] = "done"]
    /\ hend' = [hend EXCEPT ![e] = how]

\* The task enters an outer except clause with exception x.
EnterExcept(e, x) ==
    IF OuterExcept(x) = "unhandled"
    THEN /\ TaskEnds(e, "escaped")
         /\ hexc' = [hexc EXCEPT ![e] = "unhandled"]
    ELSE /\ hpc' = [hpc EXCEPT ![e] = "mark"]
         /\ hexc' = [hexc EXCEPT ![e] = OuterExcept(x)]
         /\ UNCHANGED hend

\* A CancelledError is thrown into the task if one was requested.
Thrown(e) ==
    /\ outcome' = [outcome EXCEPT ![e] = IF cancelReq[e] THEN "cancel" ELSE @]
    /\ cancelReq' = [cancelReq EXCEPT ![e] = FALSE]

\* First step of the task: validate_task, then the await of db_pool.acquire().
HValidate(e, v) ==
    /\ UNCHANGED netVars
    /\ hpc[e] = "start"
    /\ IF v = "ok"
       THEN /\ hpc' = [hpc EXCEPT ![e] = "acquire"]
            /\ UNCHANGED <<hexc, hend>>
       ELSE EnterExcept(e, v)
    /\ UNCHANGED <<storeVars, schedVars, cancelReq>>
    /\ UNCHANGED <<taskCount, runCount, hUpdates, outcome, purged>>

\* Resumed from acquiring a connection and opening the transaction:
\* cancelled there, or the store raised, or run is called.
HAcquire(e, ok) ==
    /\ UNCHANGED netVars
    /\ hpc[e] = "acquire"
    /\ IF cancelReq[e] THEN EnterExcept(e, "CancelledError")
       ELSE IF ~ok THEN EnterExcept(e, "Exception")
       ELSE /\ hpc' = [hpc EXCEPT ![e] = "run"]
            /\ UNCHANGED <<hexc, hend>>
    /\ runCount' = [runCount EXCEPT ![e] = IF ~cancelReq[e] /\ ok THEN @ + 1 ELSE @]
    /\ Thrown(e)
    /\ UNCHANGED <<storeVars, schedVars>>
    /\ UNCHANGED <<taskCount, hUpdates, purged>>

\* Resumed inside the transaction block, from an await of run or from the
\* ROLLBACK and release the block awaits when an exception leaves it: run has
\* returned or raised, or a CancelledError thrown at one of these awaits
\* leaves the block (one thrown during the ROLLBACK replaces the exception).
\* Where the inner try lets 'finished' be written, the transaction commits.
HRun(e, res) ==
    /\ UNCHANGED netVars
    /\ hpc[e] = "run"
    /\ LET r == IF cancelReq[e] THEN "cancel" ELSE res
           x == InnerTry(r)
       IN /\ outcome' = [outcome EXCEPT ![e] = r]
          /\ cancelReq' = [cancelReq EXCEPT ![e] = FALSE]
          /\ IF x = "none"
             THEN /\ current_state' = UpdateRows(current_state, {e}, "finished")
                  /\ hUpdates' = [hUpdates EXCEPT ![e] = @ + 1]
                  /\ hexc' = [hexc EXCEPT ![e] = "finished"]
                  /\ TaskEnds(e, "returned")
             ELSE /\ EnterExcept(e, x)
                  /\ UNCHANGED <<current_state, hUpdates>>
    /\ UNCHANGED <<persistent, event_name, parameters, created>>
    /\ UNCHANGED <<schedVars, taskCount, runCount, purged>>

\* _mark_state(new_state), called inside an except clause: acquire, then one
\* UPDATE.  A cancellation thrown into it leaves the task: nothing catches it
\* there, and the UPDATE is not executed.
HMarkState(e) ==
    /\ UNCHANGED netVars
    /\ hpc[e] = "mark"
    /\ IF cancelReq[e]
       THEN /\ TaskEnds(e, "escaped")
            /\ UNCHANGED <<current_state, hUpdates>>
       ELSE /\ current_state' = UpdateRows(current_state, {e}, hexc[e])
            /\ hUpdates' = [hUpdates EXCEPT ![e] = @ + 1]
            /\ TaskEnds(e, "returned")
    /\ Thrown(e)
    /\ UNCHANGED <<persistent, event_name, parameters, created>>
    /\ UNCHANGED <<schedVars, hexc, taskCount, runCount, purged>>

----------------------------------------------------------------------------
(* Connection.run_reader: bytes to lines.                                  *)

\* Faulty variant of Errors: the lines are decoded with the default handler.
ErrorsStrict == "strict"

\* The error handler run_reader gives bytes.decode.
Errors == "ignore"

\* A byte that is valid UTF-8 where it stands (the letter, CR and LF are
\* ASCII; 0xFF is valid nowhere).
IsDecodable(b) == b # "FF"

\* The character U+FFFD, which the handler 'replace' puts for such a byte.
ReplacementChar == "U+FFFD"

\* bytes.decode('utf-8', errors) raises UnicodeDecodeError.
decode_raises(bs) ==
    Errors \notin {"ignore", "replace"} /\ \E i \in 1..Len(bs) : ~IsDecodable(bs[i])

\* bytes.decode('utf-8', errors) where it returns: 'ignore' leaves the
\* undecodable bytes out, 'replace' puts U+FFFD for each.
decode(bs) ==
    CASE Errors = "ignore"  -> SelectSeq(bs, IsDecodable)
      [] Errors = "replace" ->
            [i \in 1..Len(bs) |-> IF IsDecodable(bs[i]) THEN bs[i] ELSE ReplacementChar]
      [] OTHER -> bs

\* in_buffer.find(b'\r\n') + 1: the place of the first CR LF, 0 if none.
find(buf) ==
    LET at == {i \in 1..(Len(buf) - 1) : buf[i] = "CR" /\ buf[i + 1] = "LF"}
    IN IF at = {} THEN 0 ELSE CHOOSE i \in at : \A j \in at : i <= j

\* Faulty variant of extend: the buffer holds the last read only.
extend_replaces(buf, data) == data

\* in_buffer.extend(data)
extend(buf, data) == buf \o data

\* The inner loop of run_reader on the buffer and the lines so far: while the
\* buffer holds CR LF, decode what is before the first one, delete through
\* it, append the line.  Ends when no CR LF is left or decode raises.
RECURSIVE ExtractLines(_, _)
ExtractLines(buf, lines) ==
    LET pos == find(buf) IN
    IF pos = 0 THEN [buf |-> buf, lines |-> lines, raised |-> FALSE]
    ELSE IF decode_raises(SubSeq(buf, 1, pos - 1))
         THEN [buf |-> buf, lines |-> lines, raised |-> TRUE]
         ELSE ExtractLines(SubSeq(buf, pos + 2, Len(buf)),
                           Append(lines, decode(SubSeq(buf, 1, pos - 1))))

\* The task group's _abort when a child has raised: cancel() on the other
\* child if it has not ended.
ChildLive(pc) == pc \notin {"none", "done"}

\* The reader raised x (a read error, a decode error): the exception leaves
\* run_reader, which catches CancelledError only, and the group cancels the
\* writer.
ReaderRaised(c, x) ==
    /\ rpc' = [rpc EXCEPT ![c] = "done"]
    /\ rend' = [rend EXCEPT ![c] = x]
    /\ wcancel' = [wcancel EXCEPT ![c] = @ \/ ChildLive(wpc[c])]

\* A read returns data: extend the buffer, extract the lines.
ReaderRead(c, data) ==
    /\ rpc[c] = "read" /\ ~rcancel[c]
    /\ SumLen(received, NumConns) + Len(data) <= MaxBytes
    /\ received' = [received EXCEPT ![c] = @ \o data]
    /\ nreads' = [nreads EXCEPT ![c] = @ + 1]
    /\ LET r == ExtractLines(extend(in_buffer[c], data), pending_commands[c]) IN
          /\ pending_commands' = [pending_commands EXCEPT ![c] = r.lines]
          /\ PENDING_COMMANDS' = IF r.lines # pending_commands[c]
                                 THEN PENDING_COMMANDS \cup {c} ELSE PENDING_COMMANDS
          /\ IF r.raised
             THEN /\ ReaderRaised(c, "UnicodeDecodeError")
                  /\ in_buffer' = [in_buffer EXCEPT ![c] = <<>>]
             ELSE /\ in_buffer' = [in_buffer EXCEPT ![c] = r.buf]
                  /\ UNCHANGED <<rpc, rend, wcancel>>
    /\ UNCHANGED <<CONNECTIONS, DEAD_CONNECTIONS, ppc, wpc, pcancel, rcancel>>
    /\ UNCHANGED <<closed_by_client, closed_by_server, sockClosed, wend, teardowns>>
    /\ UNCHANGED <<writerVars, eventVars>>

\* Faulty variant of CancelOnEOF: the reader breaks without cancelling the task.
CancelOnEOFMissing(req) == req

\* self.task.cancel() at end of stream: a cancellation of the Connection's
\* task is requested.
CancelOnEOF(req) == TRUE

\* A read returns b'': end of stream.  The reader sets closed_by_client,
\* cancels the Connection's task and returns.
ReaderEOF(c) ==
    /\ rpc[c] = "read" /\ ~rcancel[c]
    /\ closed_by_client' = [closed_by_client EXCEPT ![c] = TRUE]
    /\ pcancel' = [pcancel EXCEPT ![c] = CancelOnEOF(@)]
    /\ rpc' = [rpc EXCEPT ![c] = "done"]
    /\ rend' = [rend EXCEPT ![c] = "eof"]
    /\ in_buffer' = [in_buffer EXCEPT ![c] = <<>>]
    /\ UNCHANGED <<registryVars, ppc, wpc, rcancel, wcancel>>
    /\ UNCHANGED <<closed_by_server, sockClosed, wend, teardowns>>
    /\ UNCHANGED <<pending_commands, received, nreads, writerVars, eventVars>>

\* A read raises (the peer reset the connection).
ReaderError(c) ==
    /\ rpc[c] = "read" /\ ~rcancel[c]
    /\ ReaderRaised(c, "ConnectionResetError")
    /\ in_buffer' = [in_buffer EXCEPT ![c] = <<>>]
    /\ UNCHANGED <<registryVars, ppc, wpc, pcancel, rcancel>>
    /\ UNCHANGED <<closed_by_client, closed_by_server, sockClosed, wend, teardowns>>
    /\ UNCHANGED <<pending_commands, received, nreads, writerVars, eventVars>>

\* The CancelledError is thrown into the reader at its read: it catches it
\* and returns.
ReaderCancelled(c) ==
    /\ rpc[c] = "read" /\ rcancel[c]
    /\ rcancel' = [rcancel EXCEPT ![c] = FALSE]
    /\ rpc' = [rpc EXCEPT ![c] = "done"]
    /\ rend' = [rend EXCEPT ![c] = "cancelled"]
    /\ in_buffer' = [in_buffer EXCEPT ![c] = <<>>]
    /\ UNCHANGED <<registryVars, ppc, wpc, pcancel, wcancel>>
    /\ UNCHANGED <<closed_by_client, closed_by_server, sockClosed, wend, teardowns>>
    /\ UNCHANGED <<pending_commands, received, nreads, writerVars, eventVars>>

----------------------------------------------------------------------------
(* Connection.run_writer: the queue to the stream.                         *)

\* A producer puts a message on the queue of a live connection.
Enqueue(c, m) ==
    /\ c \in CONNECTIONS
    /\ SumLen(enqueued, NumConns) < MaxMsgs
    /\ m.data = DataOf(Len(enqueued[c]) + 1)
    /\ out_queue' = [out_queue EXCEPT ![c] = Append(@, m)]
    /\ enqueued' = [enqueued EXCEPT ![c] = Append(@, m)]
    /\ UNCHANGED <<message, written, flushed, tasks_done>>
    /\ UNCHANGED <<registryVars, lifeVars, readerVars, eventVars>>

\* if message.flags == 0: self.writer.write(message.data)
Write(w, m) == IF m.flags = 0 THEN Append(w, m.data) ELSE w

\* out_queue.get() has returned a message: the writer writes it if it has no
\* flags, and awaits drain().
WriterTakes(c) ==
    /\ message' = [message EXCEPT ![c] = Head(out_queue[c])]
    /\ out_queue' = [out_queue EXCEPT ![c] = Tail(@)]
    /\ written' = [written EXCEPT ![c] = Write(@, Head(out_queue[c]))]
    /\ wpc' = [wpc EXCEPT ![c] = "drain"]

\* The writer, suspended in get() on an empty queue, is resumed by a put.
WriterTake(c) ==
    /\ wpc[c] = "get" /\ ~wcancel[c]
    /\ out_queue[c] # <<>>
    /\ WriterTakes(c)
    /\ UNCHANGED <<flushed, enqueued, tasks_done>>
    /\ UNCHANGED <<registryVars, ppc, rpc, pcancel, rcancel, wcancel>>
    /\ UNCHANGED <<closed_by_client, closed_by_server, sockClosed, rend, wend, teardowns>>
    /\ UNCHANGED <<readerVars, eventVars>>

\* drain() returns (with or without having suspended): task_done(), the
\* cancel of the Connection's task if the message has flags, and get()
\* again, which returns at once when the queue is not empty.
WriterDrained(c) ==
    /\ wpc[c] = "drain"
    /\ flushed' = [flushed EXCEPT ![c] = Len(written[c])]
    /\ tasks_done' = [tasks_done EXCEPT ![c] = @ + 1]
    /\ pcancel' = [pcancel EXCEPT ![c] = @ \/ message[c].flags # 0]
    /\ IF out_queue[c] # <<>>
       THEN WriterTakes(c)
       ELSE /\ wpc' = [wpc EXCEPT ![c] = "get"]
            /\ message' = [message EXCEPT ![c] = NoMessage]
            /\ UNCHANGED <<out_queue, written>>
    /\ UNCHANGED enqueued
    /\ UNCHANGED <<registryVars, ppc, rpc, rcancel, wcancel>>
    /\ UNCHANGED <<closed_by_client, closed_by_server, sockClosed, rend, wend, teardowns>>
    /\ UNCHANGED <<readerVars, eventVars>>

\* drain() raises (the peer reset the connection): the exception leaves
\* run_writer and the group cancels the reader.
WriterError(c) ==
    /\ wpc[c] = "drain" /\ ~wcancel[c]
    /\ wpc' = [wpc EXCEPT ![c] = "done"]
    /\ wend' = [wend EXCEPT ![c] = "error"]
    /\ message' = [message EXCEPT ![c] = NoMessage]
    /\ rcancel' = [rcancel EXCEPT ![c] = @ \/ ChildLive(rpc[c])]
    /\ UNCHANGED <<out_queue, written, flushed, enqueued, tasks_done>>
    /\ UNCHANGED <<registryVars, ppc, rpc, pcancel, wcancel>>
    /\ UNCHANGED <<closed_by_client, closed_by_server, sockClosed, rend, teardowns>>
    /\ UNCHANGED <<readerVars, eventVars>>

\* The CancelledError is thrown into the writer where it is suspended, in
\* get() or in drain(): nothing catches it.
WriterCancelled(c) ==
    /\ wpc[c] \in {"get", "drain"} /\ wcancel[c]
    /\ wcancel' = [wcancel EXCEPT ![c] = FALSE]
    /\ wpc' = [wpc EXCEPT ![c] = "done"]
    /\ wend' = [wend EXCEPT ![c] = "cancelled"]
    /\ message' = [message EXCEPT ![c] = NoMessage]
    /\ UNCHANGED <<out_queue, written, flushed, enqueued, tasks_done>>
    /\ UNCHANGED <<registryVars, ppc, rpc, pcancel, rcancel>>
    /\ UNCHANGED <<closed_by_client, closed_by_server, sockClosed, rend, teardowns>>
    /\ UNCHANGED <<readerVars, eventVars>>

----------------------------------------------------------------------------
(* Server.handle_client and Connection.start, close, run.                  *)

\* handle_client: a fresh id (the ids are handed out in order here), the
\* Connection registered and its task created.
Accept(c) ==
    /\ ppc[c] = "none"
    /\ \A d \in Conns : d < c => ppc[d] # "none"
    /\ CONNECTIONS' = CONNECTIONS \cup {c}
    /\ ppc' = [ppc EXCEPT ![c] = "start"]
    /\ UNCHANGED <<DEAD_CONNECTIONS, PENDING_COMMANDS>>
    /\ UNCHANGED <<rpc, wpc, pcancel, rcancel, wcancel>>
    /\ UNCHANGED <<closed_by_client, closed_by_server, sockClosed, rend, wend, teardowns>>
    /\ UNCHANGED <<writerVars, readerVars, eventVars>>

\* Connection.close, called on a connection of the live registry: the flag,
\* and cancel() on the task (which does nothing once the task has ended).
Close(c) ==
    /\ c \in CONNECTIONS
    /\ ~closed_by_server[c]
    /\ closed_by_server' = [closed_by_server EXCEPT ![c] = TRUE]
    /\ pcancel' = [pcancel EXCEPT ![c] = @ \/ ppc[c] \in {"start", "group"}]
    /\ UNCHANGED <<registryVars, ppc, rpc, wpc, rcancel, wcancel>>
    /\ UNCHANGED <<closed_by_client, sockClosed, rend, wend, teardowns>>
    /\ UNCHANGED <<writerVars, readerVars, eventVars>>

\* First step of the task.  Cancelled before it, the coroutine run is never
\* entered: no try block, no finally.  Otherwise run enters the task group
\* and creates the two children, which go to their first await (the reader
\* to its read, the writer to get()), and waits for them.
ParentStart(c) ==
    /\ ppc[c] = "start"
    /\ pcancel' = [pcancel EXCEPT ![c] = FALSE]
    /\ IF pcancel[c]
       THEN /\ ppc' = [ppc EXCEPT ![c] = "cancelled"]
            /\ UNCHANGED <<rpc, wpc>>
       ELSE /\ ppc' = [ppc EXCEPT ![c] = "group"]
            /\ rpc' = [rpc EXCEPT ![c] = "read"]
            /\ wpc' = [wpc EXCEPT ![c] = "get"]
    /\ UNCHANGED <<registryVars, rcancel, wcancel>>
    /\ UNCHANGED <<closed_by_client, closed_by_server, sockClosed, rend, wend, teardowns>>
    /\ UNCHANGED <<writerVars, readerVars, eventVars>>

\* The CancelledError is thrown into the task, which waits in the task
\* group: the group cancels the children that have not ended and goes on
\* waiting for them.
ParentCancelled(c) ==
    /\ ppc[c] = "group" /\ pcancel[c]
    /\ pcancel' = [pcancel EXCEPT ![c] = FALSE]
    /\ rcancel' = [rcancel EXCEPT ![c] = @ \/ ChildLive(rpc[c])]
    /\ wcancel' = [wcancel EXCEPT ![c] = @ \/ ChildLive(wpc[c])]
    /\ UNCHANGED <<registryVars, ppc, rpc, wpc>>
    /\ UNCHANGED <<closed_by_client, closed_by_server, sockClosed, rend, wend, teardowns>>
    /\ UNCHANGED <<writerVars, readerVars, eventVars>>

\* The exception that leaves the finally block of run, "none" if it runs to
\* its end: item assignment on DEAD_CONNECTIONS, then item deletion on
\* NEW_CONNECTIONS.
TeardownRaises(c) ==
    IF ~SupportsItemAssignment(DeadRegistryKind) THEN "TypeError"
    ELSE IF ~SupportsItemDeletion(NewRegistryKind) THEN "TypeError"
    ELSE IF c \notin NEW_CONNECTIONS THEN "KeyError"
    ELSE "none"

\* The task has ended and the registries do not hold the Connection: the
\* object is dropped, its queue, its lines, its flags and its stream with it.
ObjectDropped(c) ==
    /\ out_queue' = [out_queue EXCEPT ![c] = <<>>]
    /\ message' = [message EXCEPT ![c] = NoMessage]
    /\ written' = [written EXCEPT ![c] = <<>>]
    /\ flushed' = [flushed EXCEPT ![c] = 0]
    /\ enqueued' = [enqueued EXCEPT ![c] = <<>>]
    /\ tasks_done' = [tasks_done EXCEPT ![c] = 0]
    /\ in_buffer' = [in_buffer EXCEPT ![c] = <<>>]
    /\ pending_commands' = [pending_commands EXCEPT ![c] = <<>>]
    /\ received' = [received EXCEPT ![c] = <<>>]
    /\ nreads' = [nreads EXCEPT ![c] = 0]
    /\ closed_by_client' = [closed_by_client EXCEPT ![c] = FALSE]
    /\ closed_by_server' = [closed_by_server EXCEPT ![c] = FALSE]
    /\ rend' = [rend EXCEPT ![c] = "none"]
    /\ wend' = [wend EXCEPT ![c] = "none"]

\* Both children have ended: the task group exits, the except clauses take
\* what it raises (CancelledError or the exception group) and the finally
\* block runs: writer.close(), CONNECTIONS.pop(conn_id), the assignment to
\* DEAD_CONNECTIONS[conn_id], del NEW_CONNECTIONS[conn_id]; the await of
\* wait_closed() follows if no statement raised.
ParentExit(c) ==
    /\ ppc[c] = "group"
    /\ ~ChildLive(rpc[c]) /\ ~ChildLive(wpc[c])
    /\ teardowns' = [teardowns EXCEPT ![c] = @ + 1]
    /\ sockClosed' = [sockClosed EXCEPT ![c] = TRUE]
    /\ CONNECTIONS' = CONNECTIONS \ {c}
    /\ DEAD_CONNECTIONS' = IF SupportsItemAssignment(DeadRegistryKind)
                           THEN DEAD_CONNECTIONS \cup {c} ELSE DEAD_CONNECTIONS
    /\ ppc' = [ppc EXCEPT ![c] = IF TeardownRaises(c) = "none" THEN "done" ELSE "failed"]
    /\ pcancel' = [pcancel EXCEPT ![c] = FALSE]
    /\ ObjectDropped(c)
    /\ UNCHANGED <<PENDING_COMMANDS, rpc, wpc, rcancel, wcancel>>
    /\ UNCHANGED eventVars

\* What a read may return.
Chunks == UNION {[1..n -> Bytes] : n \in 1..MaxBytes}

\* The read of the lifecycle specification: one whole line.
LineChunks == {<<"a", "CR", "LF">>}

\* The connection the specifications drive: the first id handed out.
Subject == CHOOSE c \in Conns : \A d \in Conns : c <= d

\* The lifecycle of the connections.  Every connection is accepted, runs and
\* reads, and its client may close or reset it; the messages, the close()
\* call and the write errors are those of one connection.
NextNet ==
    \/ \E c \in Conns : Accept(c)
    \/ \E c \in Conns : ParentStart(c)
    \/ \E c \in Conns : ParentCancelled(c)
    \/ \E c \in Conns : ParentExit(c)
    \/ \E c \in Conns, data \in LineChunks : ReaderRead(c, data)
    \/ \E c \in Conns : ReaderCancelled(c)
    \/ \E c \in Conns : WriterTake(c)
    \/ \E c \in Conns : WriterDrained(c)
    \/ \E c \in Conns : WriterCancelled(c)
    \/ \E m \in OutMessage : Enqueue(Subject, m)
    \/ Close(Subject)
    \/ \E c \in Conns : ReaderEOF(c)
    \/ \E c \in Conns : ReaderError(c)
    \/ WriterError(Subject)

\* The store is empty and the scheduler does not move.
InitNet == Init /\ \A e \in Ids : current_state[e] = NoRow

SpecNet == InitNet /\ [][NextNet]_vars

\* The reader of one connection, every way its bytes may arrive; nothing is
\* put on its queue.
NextReader ==
    \/ Accept(Subject)
    \/ Close(Subject)
    \/ ParentStart(Subject)
    \/ ParentCancelled(Subject)
    \/ ParentExit(Subject)
    \/ \E data \in Chunks : ReaderRead(Subject, data)
    \/ ReaderEOF(Subject)
    \/ ReaderError(Subject)
    \/ ReaderCancelled(Subject)
    \/ WriterCancelled(Subject)

SpecReader == InitNet /\ [][NextReader]_vars

----------------------------------------------------------------------------
Next ==
    \/ \E e \in Ids, n \in EventNames, p \in Payloads, pers \in BOOLEAN :
          CreateEvent(e, n, p, pers)
    \/ \E e \in Ids : ExternalAbort(e)
    \/ CleanupNonpersistent
    \/ ExecuteAborts
    \/ CleanupEvents
    \/ ExecuteEventsTxn
    \/ ExecuteEventsStart
    \/ Sleep
    \/ StoreError
    \/ ExecuteEventsRaises
    \/ Shutdown
    \/ \E e \in Ids, v \in ValidateResults : HValidate(e, v)
    \/ \E e \in Ids, ok \in BOOLEAN : HAcquire(e, ok)
    \/ \E e \in Ids, res \in RunResults : HRun(e, res)
    \/ \E e \in Ids : HMarkState(e)

Spec == Init /\ [][Next]_vars

----------------------------------------------------------------------------
(* The claims.                                                             *)

\* C1: a handler whose run returned normally, with no cancellation, has
\* executed exactly one UPDATE when its task ends, and that UPDATE left its
\* row 'finished' (the row is there until a cleanup sweep deletes it).
C1_NormalReturnFinishes ==
    \A e \in Ids :
        (hpc[e] = "done" /\ outcome[e] = "return") =>
            /\ hUpdates[e] = 1
            /\ current_state[e] \in {"finished", NoRow}

\* C2: a handler that entered its cancellation path (the row was marked
\* 'aborted' while the task was live and an abort sweep cancelled the task)
\* has executed exactly one UPDATE when its task ends, and its row is
\* 'cancelled', whatever the later sweeps did in between.
C2_AbortedEndsCancelled ==
    \A e \in Ids :
        (hpc[e] = "done" /\ hexc[e] = "cancelled") =>
            /\ hUpdates[e] = 1
            /\ current_state[e] \in {"cancelled", NoRow}

C4_UnexpectedErrorIsTerminal ==
    \A e \in Ids :
        (hpc[e] = "done" /\ hexc[e] = "unhandled") =>
            current_state[e] \in TerminalStates \cup {NoRow}

\* C5: a sweep of a cycle never ends the scheduler loop unless the loop is
\* cancelled: from inside a cycle the scheduler goes on in the cycle or is
\* stopped by a deliberate cancellation, and no exception leaves run.
C5_OnlyCancellationStopsLoop ==
    [][(schedPc \in {"aborts", "cleanup", "dispatch", "start_new", "sleep"}) =>
          (schedPc' # "dead")]_vars

\* C6: a handler task exists only for a row whose 'active' state has been
\* committed: no task, started or not, belongs to a row that is 'pending',
\* and a task about to take its first step has a row the sweep made active
\* (a third party may have marked it 'aborted' since).
C6_ActiveBeforeHandler ==
    \A e \in Ids :
        /\ hpc[e] # "none" => current_state[e] # "pending"
        /\ hpc[e] = "start" => current_state[e] \in {"active", "aborted"}

\* C6 witness: a task created and not yet run, its row committed 'active'.
C6_Witness == \E e \in Ids : hpc[e] = "start" /\ current_state[e] = "active"

C8_UnresolvedDiscarded ==
    /\ [](\A e \in Ids :
            (current_state[e] # NoRow /\ event_name[e] \notin EVENT_HANDLERS) =>
                /\ current_state[e] = "pending"
                /\ e \notin EVENTS \cup new_events
                /\ hpc[e] = "none")
    /\ [][(schedPc = "dispatch" /\ schedPc' = "start_new") =>
            \A e \in Ids : current_state[e] = "pending" =>
                IF event_name[e] \in EVENT_HANDLERS
                THEN current_state'[e] = "active" /\ e \in new_events'
                ELSE current_state'[e] = NoRow /\ e \notin new_events'
        ]_vars

\* C8 witness: a dispatch sweep has just committed that saw an unresolved
\* row, now deleted, and a resolved row, now active.
C8_Witness ==
    /\ schedPc = "start_new"
    /\ \E e \in bad_event_uuids : current_state[e] = NoRow
    /\ \E e \in new_events : current_state[e] = "active"

\* C9: a cleanup sweep deletes every row that is terminal when it runs and
\* leaves none of them an instance in the event table: a terminal row does
\* not outlive the first cleanup sweep after it became terminal.
C9_TerminalCleanedUp ==
    [][(schedPc = "cleanup" /\ schedPc' = "dispatch") =>
          \A e \in Ids : current_state[e] \in TerminalStates =>
              current_state'[e] = NoRow /\ e \notin EVENTS'
      ]_vars

\* C9 witness: a handler wrote its terminal state, and the cleanup sweep has
\* deleted the row and dropped the instance.
C9_Witness ==
    /\ schedPc = "dispatch"
    /\ \E e \in Ids :
          /\ hpc[e] = "done" /\ hUpdates[e] = 1
          /\ current_state[e] = NoRow /\ e \notin EVENTS

\* C10: the startup delete removes every row with persistent = FALSE, in
\* whatever state, and leaves every row with persistent = TRUE as it was; no
\* sweep has run and no task exists before it.
C10_StartupPurge ==
    /\ [](schedPc = "startup" =>
            /\ EVENTS = {} /\ new_events = {}
            /\ \A e \in Ids : hpc[e] = "none")
    /\ [][(schedPc = "startup" /\ schedPc' = "aborts") =>
            \A e \in Ids : current_state[e] # NoRow =>
                IF persistent[e]
                THEN /\ current_state'[e] = current_state[e]
                     /\ persistent'[e]
                     /\ event_name'[e] = event_name[e]
                     /\ parameters'[e] = parameters[e]
                ELSE current_state'[e] = NoRow
        ]_vars

\* C10 witness: the startup delete has removed a row and a persistent row is
\* still there in a state other than pending.
C10_Witness ==
    /\ schedPc = "aborts"
    /\ purged # {}
    /\ \E e \in Ids : persistent[e] /\ current_state[e] \in {"active", "error"}

C17_AbortedOrphanCleaned ==
    [][\A e \in Ids :
          (current_state[e] = "aborted" /\ ~(e \in EVENTS /\ Live(e))) =>
              /\ (schedPc = "aborts" /\ schedPc' = "cleanup") =>
                    current_state'[e] = "aborted" /\ ~cancelReq'[e]
              /\ (schedPc = "cleanup" /\ schedPc' = "dispatch") =>
                    current_state'[e] = NoRow
      ]_vars

\* C18: the three sweeps of a cycle leave every 'active' row 'active' and
\* give it no new instance; the cleanup sweep deletes terminal rows only, the
\* dispatch sweep deletes pending rows with an unregistered name only, and a
\* row is deleted by a step of the scheduler, never by a step of a handler;
\* a persistent 'active' row that has no instance never gets one and stays
\* 'active' (until a third party marks it 'aborted').
C18_ActiveRowsUntouched ==
    [][\A e \in Ids :
          /\ (current_state[e] = "active" /\ schedPc # schedPc'
                /\ schedPc \in {"aborts", "cleanup", "dispatch", "start_new", "sleep"}
                /\ ~SchedEnded') =>
                /\ current_state'[e] = "active"
                /\ e \in new_events' => e \in new_events
                /\ taskCount'[e] = taskCount[e] + (IF e \in new_events THEN 1 ELSE 0)
          /\ (current_state[e] # NoRow /\ current_state'[e] = NoRow) =>
                /\ schedPc \in {"startup", "cleanup", "dispatch"}
                /\ schedPc' # schedPc
                /\ schedPc = "cleanup" => current_state[e] \in TerminalStates
                /\ schedPc = "dispatch" =>
                      current_state[e] = "pending" /\ event_name[e] \notin EVENT_HANDLERS
          /\ (current_state[e] = "active" /\ persistent[e] /\ taskCount[e] = 0
                /\ e \notin EVENTS \cup new_events) =>
                /\ current_state'[e] \in {"active", "aborted"}
                /\ e \notin EVENTS' \cup new_events'
                /\ taskCount'[e] = 0 /\ hpc'[e] = "none"
      ]_vars

\* C18 witness: a cycle has dispatched another event, and a persistent
\* 'active' row is still 'active' with no instance and no task.
C18_Witness ==
    /\ schedPc = "sleep"
    /\ \E e, f \in Ids :
          /\ current_state[e] = "active" /\ persistent[e]
          /\ taskCount[e] = 0 /\ e \notin EVENTS
          /\ taskCount[f] = 1 /\ f \in EVENTS

\* C19: every id in the event table has a row, the row is not 'pending', and
\* the id has exactly one instance and task.
C19_InstanceHasRow ==
    \A e \in EVENTS :
        /\ current_state[e] \notin {NoRow, "pending"}
        /\ taskCount[e] = 1
        /\ hpc[e] # "none"

\* C19 witness: an instance whose task has ended and whose row, terminal, has
\* not met a cleanup sweep yet, next to an instance whose task is running.
C19_Witness ==
    \E e, f \in EVENTS :
        /\ hpc[e] = "done" /\ current_state[e] = "error"
        /\ Live(f) /\ current_state[f] = "active"

\* The stream s read byte by byte from place i: the segments that a CR LF
\* ends, in order and without it, and what follows the last CR LF.
RECURSIVE SplitStream(_, _, _, _)
SplitStream(s, i, seg, out) ==
    IF i > Len(s) THEN [lines |-> out, tail |-> seg]
    ELSE IF s[i] = "CR" /\ i < Len(s) /\ s[i + 1] = "LF"
         THEN SplitStream(s, i + 2, <<>>, Append(out, seg))
         ELSE SplitStream(s, i + 1, Append(seg, s[i]), out)

StreamLines(s) == SplitStream(s, 1, <<>>, <<>>).lines

StreamTail(s) == SplitStream(s, 1, <<>>, <<>>).tail

Substituted(bs) ==
    [i \in 1..Len(bs) |-> IF IsDecodable(bs[i]) THEN bs[i] ELSE ReplacementChar]

\* C20 as stated: every CR LF-terminated segment of the stream received is a
\* pending line, decoded with a substitute character in the place of each
\* undecodable byte, and the reader never ends on a decode error.
C20_UndecodableReplaced ==
    \A c \in Conns :
        LET L == StreamLines(received[c]) IN
        /\ pending_commands[c] = [i \in 1..Len(L) |-> Substituted(L[i])]
        /\ rend[c] # "UnicodeDecodeError"

\* C20 amended: every CR LF-terminated segment of the stream received is a
\* pending line (none is rejected), the line is the segment with its
\* undecodable bytes left out and nothing in their place, and the reader
\* never ends on a decode error.
C20_UndecodableDropped ==
    \A c \in Conns :
        LET L == StreamLines(received[c]) IN
        /\ Len(pending_commands[c]) = Len(L)
        /\ \A i \in 1..Len(L) :
              /\ pending_commands[c][i] = SelectSeq(L[i], IsDecodable)
              /\ \A j \in 1..Len(pending_commands[c][i]) :
                    pending_commands[c][i][j] # ReplacementChar
        /\ rend[c] # "UnicodeDecodeError"

\* C20 witness: the line 0xFF 'a' has been read and the pending line is 'a';
\* the reader is at its next read.
C20_Witness ==
    /\ received[Subject] = <<"FF", "a", "CR", "LF">>
    /\ pending_commands[Subject] = << <<"a">> >>
    /\ rpc[Subject] = "read"

\* The messages the writer has taken off the queue so far.
Taken(c) == SubSeq(enqueued[c], 1, Len(enqueued[c]) - Len(out_queue[c]))

\* C13: what has been written to the stream of a connection is the data of
\* the messages taken off its queue, one write a message, in the order they
\* were put on it; when the writer takes a message, every message before it
\* has been written and flushed.
C13_WritesInEnqueueOrder ==
    \A c \in Conns :
        /\ written[c] = [i \in 1..Len(Taken(c)) |-> Taken(c)[i].data]
        /\ flushed[c] >= Len(written[c]) - 1

\* C14: when the writer is done with a message that has the close flag and
\* cancels the Connection's task, the message's data is the last thing
\* written, every message before it has been written too, all of it has
\* been flushed, and the lifecycle had not ended before.
C14_CloseAfterFlush ==
    [][\A c \in Conns :
          (wpc[c] = "drain" /\ message[c].flags # 0
             /\ tasks_done'[c] = tasks_done[c] + 1) =>
              /\ Len(written[c]) = tasks_done[c] + 1
              /\ written[c][Len(written[c])] = message[c].data
              /\ flushed'[c] >= Len(written[c])
              /\ ppc[c] = "group" /\ ~sockClosed[c]
              /\ pcancel'[c]
      ]_vars

\* C15: a connection id is never in both registries; the finally block of a
\* Connection runs at most once; and when the lifecycle of a Connection
\* that entered run has ended, it has run once, the socket is closed, and
\* the id is out of the live registry and in the dead one.
C15_TeardownMovesToDead ==
    \A c \in Conns :
        /\ ~(c \in CONNECTIONS /\ c \in DEAD_CONNECTIONS)
        /\ teardowns[c] <= 1
        /\ ppc[c] \in {"done", "failed"} =>
              /\ teardowns[c] = 1
              /\ sockClosed[c]
              /\ c \notin CONNECTIONS
              /\ c \in DEAD_CONNECTIONS

\* What a Connection is, to see which connection a step touched.
ConnView(c) ==
    <<ppc[c], rpc[c], wpc[c], pcancel[c], rcancel[c], wcancel[c],
      closed_by_client[c], closed_by_server[c], sockClosed[c],
      c \in CONNECTIONS, out_queue[c], written[c], pending_commands[c]>>

\* C16: while the task of a Connection waits in its task group, a child that
\* has ended leaves the other child ended, cancelled, or about to be (the
\* cancellation of the task is on its way); the finally block runs only once
\* both children have ended; a reader that met the end of stream has set
\* closed_by_client; and a step that changes one Connection leaves every
\* other Connection and the scheduler as they were.
C16_SupervisedAsUnit ==
    /\ [](\A c \in Conns :
            /\ (ppc[c] = "group" /\ ~ChildLive(rpc[c]) /\ ChildLive(wpc[c])) =>
                  wcancel[c] \/ pcancel[c]
            /\ (ppc[c] = "group" /\ ~ChildLive(wpc[c]) /\ ChildLive(rpc[c])) =>
                  rcancel[c] \/ pcancel[c]
            /\ teardowns[c] = 1 =>
                  ppc[c] \in {"done", "failed"} /\ ~ChildLive(rpc[c]) /\ ~ChildLive(wpc[c])
            /\ rend[c] = "eof" => closed_by_client[c])
    /\ [][\A c, d \in Conns :
            (c # d /\ ConnView(c)' # ConnView(c)) =>
                /\ ConnView(d)' = ConnView(d)
                /\ schedPc' = schedPc
        ]_vars

\* C16 witness: the client of one Connection closed the stream, its writer
\* was cancelled and its finally block has run, while another Connection
\* goes on in its task group with both children.
C16_Witness ==
    \E c, d \in Conns :
        /\ ppc[c] = "failed" /\ teardowns[c] = 1 /\ sockClosed[c]
        /\ ppc[d] = "group" /\ ChildLive(rpc[d]) /\ ChildLive(wpc[d])
        /\ ~pcancel[d] /\ ~rcancel[d] /\ ~wcancel[d]

====
